---- MODULE Spec2Model ----
(***************************************************************************)
(* Model of BlobTriggerFunction/__init__.py: a blob-triggered handler      *)
(* `main` that dispatches on the blob name's suffix to process_text        *)
(* (sentiment analysis) or process_image (document analysis), and writes   *)
(* json.dumps(result) to the output binding.                               *)
(*                                                                         *)
(* Every invocation i has its own frame (blob, pc, locals, output          *)
(* binding); the process environment and the logging module are shared.    *)
(* The Azure SDK is the environment of the program.  It is modelled by     *)
(* the interface the source uses:                                          *)
(*   - AzureKeyCredential(key) raises TypeError unless key is a str;       *)
(*   - the client constructors raise ValueError unless endpoint is a str;  *)
(*   - analyze_sentiment raises HttpResponseError or returns a list whose  *)
(*     items are AnalyzeSentimentResult or DocumentError objects; a        *)
(*     DocumentError has the attributes id, error, is_error only;          *)
(*   - begin_analyze_document raises HttpResponseError or returns a        *)
(*     poller; poller.result() returns only when the operation is          *)
(*     terminal, and raises HttpResponseError when it has failed.          *)
(* A Python exception that nothing catches ends the invocation (pc =       *)
(* "failed") with the exception's class in exc.                            *)
(***************************************************************************)
EXTENDS Integers, Sequences, FiniteSets, TLC

\* ------------------------------------------------------------------ bounds
MaxDocs == 2     \* items in one analyze_sentiment response
MaxPages == 2    \* pages in one AnalyzeResult
MaxLines == 2    \* lines on one page

\* ------------------------------------------------------------------ inputs
\* Blob names, as sequences of characters.
Names ==
  { <<"n", ".", "t", "x", "t">>,
    <<".", "t", "x", "t">>,
    <<"p", ".", "j", "p", "g">>,
    <<"s", ".", "p", "n", "g">>,
    <<"n", ".", "t", "x", "t", ".", "p", "n", "g">>,
    <<"a", ".", "z", "i", "p">>,
    <<"n", ".", "T", "X", "T">>,
    <<"p", ".", "J", "P", "G">>,
    <<"s", ".", "P", "N", "G">>,
    <<"p", ".", "j", "p", "e", "g">>,
    <<"n", ".", "t", "x", "t", ".", "b", "a", "k">>,
    <<"t", "x", "t">>,
    << >> }

\* Blob contents, as sequences of bytes: valid UTF-8 ("", "A", e-acute,
\* "A" e-acute, the euro sign) and invalid UTF-8 (0xFF, a truncated
\* two-byte form, a lone continuation byte, an overlong form, a surrogate,
\* a valid byte followed by an invalid one).
Contents ==
  { << >>, <<65>>, <<195, 169>>, <<65, 195, 169>>, <<226, 130, 172>>,
    <<255>>, <<195>>, <<169>>, <<192, 128>>, <<237, 160, 128>>, <<65, 255>> }

\* The blobs delivered by the trigger: every content under the names ending
\* in ".txt", whose content main decodes; an empty and a binary content
\* under the other names, whose content main at most passes on.
Blobs ==
  { b \in [name : Names, content : Contents] :
      \/ Len(b.name) >= 4 /\ SubSeq(b.name, Len(b.name) - 3, Len(b.name))
                               = <<".", "t", "x", "t">>
      \/ b.content \in { << >>, <<65, 255>> } }

None == "None"                      \* Python's None, as os.getenv returns it
EnvNames == {"AZURE_AI_ENDPOINT", "AZURE_AI_KEY"}
\* The process environment: a subset of the two variables is set.
Environments == UNION { [S -> {"value"}] : S \in SUBSET EnvNames }

\* --------------------------------------------------- what the backends return
\* AnalyzeSentimentResult objects (scores in hundredths).
OkDocs ==
  { [id |-> "0", sentiment |-> "positive", is_error |-> FALSE,
     confidence_scores |-> [positive |-> 95, neutral |-> 4, negative |-> 1]],
    [id |-> "0", sentiment |-> "mixed", is_error |-> FALSE,
     confidence_scores |-> [positive |-> 40, neutral |-> 0, negative |-> 60]],
    [id |-> "1", sentiment |-> "negative", is_error |-> FALSE,
     confidence_scores |-> [positive |-> 0, neutral |-> 10, negative |-> 90]] }
\* DocumentError objects.
ErrDocs ==
  { [id |-> "0", error |-> "InvalidDocument", is_error |-> TRUE] }

SeqsUpTo(S, n) == UNION { [1..k -> S] : k \in 0..n }

SentimentResponses == SeqsUpTo(OkDocs \cup ErrDocs, MaxDocs)

\* DocumentLine objects: the text and geometry the output schema drops.
LineObjects == { [content |-> c, polygon |-> "box"] : c \in {"a", "b"} }
PageObjects ==
  { [page_number |-> n, lines |-> ls, angle |-> 0] :
      n \in {1, 2}, ls \in SeqsUpTo(LineObjects, MaxLines) }
AnalyzeResults == { [pages |-> ps] : ps \in SeqsUpTo(PageObjects, MaxPages) }

\* ------------------------------------------------------------ pure helpers
\* str.endswith
EndsWith(s, suffix) ==
  /\ Len(s) >= Len(suffix)
  /\ SubSeq(s, Len(s) - Len(suffix) + 1, Len(s)) = suffix

TxtSuffix == <<".", "t", "x", "t">>
JpgSuffix == <<".", "j", "p", "g">>
PngSuffix == <<".", "p", "n", "g">>

\* Fault variant of IsText: the suffix tested without its dot.
IsTextNoDot(name) == EndsWith(name, Tail(TxtSuffix))

\* myblob.name.endswith(".txt")
IsText(name) == EndsWith(name, TxtSuffix)

\* Fault variant of IsImage: ".jpeg" accepted as well.
IsImageJpeg(name) ==
  \/ EndsWith(name, JpgSuffix)
  \/ EndsWith(name, PngSuffix)
  \/ EndsWith(name, <<".", "j", "p", "e", "g">>)

\* myblob.name.endswith(".jpg") or myblob.name.endswith(".png")
IsImage(name) == EndsWith(name, JpgSuffix) \/ EndsWith(name, PngSuffix)

IsCont(b) == b >= 128 /\ b <= 191

\* bytes.decode("utf-8", errors): the code points, or a failure.  With
\* errors = "strict" (Python's default) a malformed byte fails the call;
\* with "ignore" it is skipped.
RECURSIVE Utf8From(_, _, _)
Utf8From(b, i, errors) ==
  IF i > Len(b) THEN [ok |-> TRUE, text |-> << >>]
  ELSE
    LET b0 == b[i]
        n == IF b0 < 128 THEN 1
             ELSE IF b0 >= 194 /\ b0 <= 223 THEN 2
             ELSE IF b0 >= 224 /\ b0 <= 239 THEN 3
             ELSE IF b0 >= 240 /\ b0 <= 244 THEN 4
             ELSE 0
        fits == n > 0 /\ i + n - 1 <= Len(b)
                /\ \A k \in 1..(n - 1) : IsCont(b[i + k])
        strict == /\ (b0 = 224 => b[i + 1] >= 160)
                  /\ (b0 = 237 => b[i + 1] <= 159)
                  /\ (b0 = 240 => b[i + 1] >= 144)
                  /\ (b0 = 244 => b[i + 1] <= 143)
        cp == IF n = 1 THEN b0
              ELSE IF n = 2 THEN (b0 - 192) * 64 + (b[i + 1] - 128)
              ELSE IF n = 3 THEN (b0 - 224) * 4096 + (b[i + 1] - 128) * 64
                                 + (b[i + 2] - 128)
              ELSE (b0 - 240) * 262144 + (b[i + 1] - 128) * 4096
                   + (b[i + 2] - 128) * 64 + (b[i + 3] - 128)
    IN IF ~fits \/ ~strict
       THEN IF errors = "strict" THEN [ok |-> FALSE, text |-> << >>]
            ELSE Utf8From(b, i + 1, errors)
       ELSE LET rest == Utf8From(b, i + n, errors)
            IN IF rest.ok THEN [ok |-> TRUE, text |-> <<cp>> \o rest.text]
               ELSE rest

ValidUtf8(b) == Utf8From(b, 1, "strict").ok

\* Fault variant of BytesDecode: decode("utf-8", errors="ignore").
BytesDecodeIgnore(b) == Utf8From(b, 1, "ignore")

\* myblob.read().decode("utf-8")
BytesDecode(b) == Utf8From(b, 1, "strict")

\* ------------------------------------------------------ SDK object interface
\* os.getenv(name): the value, or None when the variable is not set.
GetEnv(e, name) == IF name \in DOMAIN e THEN e[name] ELSE None

\* Fault variant of CredentialRaises: a credential that takes any key.
CredentialAcceptsNone(key) == FALSE

\* AzureKeyCredential(key): TypeError unless key is a str.
CredentialRaises(key) == key = None

\* TextAnalyticsClient(endpoint, ...) and DocumentAnalysisClient(endpoint, ...):
\* ValueError unless endpoint is a str.
ClientRaises(endpoint) == endpoint = None

\* endpoint = os.getenv(...); key = os.getenv(...);
\* client = <Client>(endpoint, AzureKeyCredential(key)): the exception the
\* statement raises ("none" when the client is built).  The credential is an
\* argument of the client's constructor, so it is built first.
CreateClient(e) ==
  LET endpoint == GetEnv(e, "AZURE_AI_ENDPOINT")
      key == GetEnv(e, "AZURE_AI_KEY")
  IN IF CredentialRaises(key) THEN "TypeError"
     ELSE IF ClientRaises(endpoint) THEN "ValueError"
     ELSE "none"

\* obj.attr raises AttributeError when the object has no such attribute.
HasAttr(obj, attr) == attr \in DOMAIN obj

\* ------------------------------------------------------------- process_text
\* Fault variant of DocEntry: the positive and negative scores exchanged.
DocEntrySwapped(doc) ==
  [id |-> doc.id,
   sentiment |-> doc.sentiment,
   confidence_scores |->
     [positive |-> doc.confidence_scores.negative,
      neutral |-> doc.confidence_scores.neutral,
      negative |-> doc.confidence_scores.positive]]

\* The dict appended for one item of the response.
DocEntry(doc) ==
  [id |-> doc.id,
   sentiment |-> doc.sentiment,
   confidence_scores |->
     [positive |-> doc.confidence_scores.positive,
      neutral |-> doc.confidence_scores.neutral,
      negative |-> doc.confidence_scores.negative]]

\* Building that dict reads doc.id, doc.sentiment, doc.confidence_scores.
DocEntryRaises(doc) ==
  ~(HasAttr(doc, "id") /\ HasAttr(doc, "sentiment")
    /\ HasAttr(doc, "confidence_scores"))

\* for doc in response: result["documents"].append({...}), from item k on,
\* with docs the list built so far.
RECURSIVE TextLoop(_, _, _)
TextLoop(response, k, docs) ==
  IF k > Len(response)
  THEN [raised |-> "none", result |-> [documents |-> docs]]
  ELSE IF DocEntryRaises(response[k])
  THEN [raised |-> "AttributeError", result |-> [documents |-> docs]]
  ELSE TextLoop(response, k + 1, Append(docs, DocEntry(response[k])))

\* Fault variant of ProcessTextBody: items flagged is_error are skipped.
ProcessTextBodySkipErrors(response) ==
  TextLoop(SelectSeq(response, LAMBDA doc : ~doc.is_error), 1, << >>)

\* result = {"documents": []}; the loop; return result
ProcessTextBody(response) == TextLoop(response, 1, << >>)

\* ------------------------------------------------------------ process_image
\* for line in page.lines: page_data["lines"].append(line.content)
RECURSIVE LineLoop(_, _, _)
LineLoop(lines, k, acc) ==
  IF k > Len(lines) THEN acc
  ELSE LineLoop(lines, k + 1, Append(acc, lines[k].content))

\* page_data = {"page_number": page.page_number, "lines": []}; the loop
PageData(page) ==
  [page_number |-> page.page_number, lines |-> LineLoop(page.lines, 1, << >>)]

\* for page in result.pages: analysis_result["pages"].append(page_data)
RECURSIVE PageLoop(_, _, _)
PageLoop(pages, k, acc) ==
  IF k > Len(pages) THEN acc
  ELSE PageLoop(pages, k + 1, Append(acc, PageData(pages[k])))

\* Fault variant of ProcessImageBody: pages without lines are left out.
ProcessImageBodySkipEmpty(analyzeResult) ==
  [pages |-> PageLoop(SelectSeq(analyzeResult.pages,
                                LAMBDA page : Len(page.lines) > 0),
                      1, << >>)]

\* analysis_result = {"pages": []}; the loops; return analysis_result
ProcessImageBody(analyzeResult) ==
  [pages |-> PageLoop(analyzeResult.pages, 1, << >>)]

\* --------------------------------------------------------------- json.dumps
\* The JSON text, as its sequence of tokens.
Quote(s) == "\"" \o s \o "\""

RECURSIVE JoinComma(_)
JoinComma(parts) ==
  IF Len(parts) = 0 THEN << >>
  ELSE IF Len(parts) = 1 THEN parts[1]
  ELSE parts[1] \o <<",">> \o JoinComma(Tail(parts))

\* A float (held in hundredths) and an int.
DumpFloat(x) == <<ToString(x) \o "e-2">>
DumpInt(n) == <<ToString(n)>>
DumpStr(s) == <<Quote(s)>>

DumpScores(c) ==
  <<"{", Quote("positive"), ":">> \o DumpFloat(c.positive)
  \o <<",", Quote("neutral"), ":">> \o DumpFloat(c.neutral)
  \o <<",", Quote("negative"), ":">> \o DumpFloat(c.negative) \o <<"}">>

DumpDoc(d) ==
  <<"{", Quote("id"), ":">> \o DumpStr(d.id)
  \o <<",", Quote("sentiment"), ":">> \o DumpStr(d.sentiment)
  \o <<",", Quote("confidence_scores"), ":">> \o DumpScores(d.confidence_scores)
  \o <<"}">>

DumpPage(p) ==
  <<"{", Quote("page_number"), ":">> \o DumpInt(p.page_number)
  \o <<",", Quote("lines"), ":", "[">>
  \o JoinComma([k \in 1..Len(p.lines) |-> DumpStr(p.lines[k])])
  \o <<"]", "}">>

\* Fault variant of JsonDumps: an envelope that always carries both keys.
JsonDumpsBothKeys(r) ==
  IF "documents" \in DOMAIN r
  THEN <<"{", Quote("documents"), ":", "[">>
       \o JoinComma([k \in 1..Len(r.documents) |-> DumpDoc(r.documents[k])])
       \o <<"]", ",", Quote("pages"), ":", "[", "]", "}">>
  ELSE <<"{", Quote("documents"), ":", "[", "]", ",", Quote("pages"), ":", "[">>
       \o JoinComma([k \in 1..Len(r.pages) |-> DumpPage(r.pages[k])])
       \o <<"]", "}">>

\* json.dumps of the two dicts the strategies return, keys in insertion order.
JsonDumps(r) ==
  IF "documents" \in DOMAIN r
  THEN <<"{", Quote("documents"), ":", "[">>
       \o JoinComma([k \in 1..Len(r.documents) |-> DumpDoc(r.documents[k])])
       \o <<"]", "}">>
  ELSE <<"{", Quote("pages"), ":", "[">>
       \o JoinComma([k \in 1..Len(r.pages) |-> DumpPage(r.pages[k])])
       \o <<"]", "}">>

\* -------------------------------------------------------------------- state
VARIABLES
  env,         \* os.environ (shared by the invocations, never written)
  log,         \* the records handed to the logging module (shared)
  blob,        \* blob[i]: myblob of invocation i, [name, content]
  pc,          \* pc[i]: where invocation i stands
  arg,         \* arg[i]: blob_content, the argument of the strategy called
  response,    \* response[i]: what the remote call of invocation i answered
  opState,     \* opState[i]: the long-running operation behind the poller
  analysis,    \* analysis[i]: the AnalyzeResult of a succeeded operation
  result,      \* result[f]: the local `result` of main in frame f
  outputBlob,  \* outputBlob[i]: the values given to outputBlob.set, in order
  exc,         \* exc[i]: the exception that ended invocation i, or "none"
  reads,       \* reads[i]: number of myblob.read() calls
  calls,       \* calls[i]: the strategies main called, with their argument
  remote       \* remote[i]: the remote operations issued, in order

vars == <<env, log, blob, pc, arg, response, opState, analysis, result,
          outputBlob, exc, reads, calls, remote>>

Invocations == DOMAIN pc

NoResponse == [kind |-> "none"]
NoAnalysis == [pages |-> << >>]
Unset == [unset |-> TRUE]

\* Fault variant of Frame: `result` as one module-level variable.
SharedFrame(i) == 1

\* `result` is a local variable of main: every invocation has its own.
Frame(i) == i

InitOf(invs, blobs) ==
  /\ env \in Environments
  /\ log = << >>
  /\ blob \in [invs -> blobs]
  /\ pc = [i \in invs |-> "main"]
  /\ arg = [i \in invs |-> << >>]
  /\ response = [i \in invs |-> NoResponse]
  /\ opState = [i \in invs |-> "None"]
  /\ analysis = [i \in invs |-> NoAnalysis]
  /\ result = [i \in invs |-> Unset]
  /\ outputBlob = [i \in invs |-> << >>]
  /\ exc = [i \in invs |-> "none"]
  /\ reads = [i \in invs |-> 0]
  /\ calls = [i \in invs |-> << >>]
  /\ remote = [i \in invs |-> << >>]

Init == InitOf({1}, Blobs)

\* ------------------------------------------------------------------ actions
Goto(i, label) == pc' = [pc EXCEPT ![i] = label]

\* An exception leaves process_text / process_image and main: nothing in the
\* module catches it.
Raise(i, e) ==
  /\ pc' = [pc EXCEPT ![i] = "failed"]
  /\ exc' = [exc EXCEPT ![i] = e]

\* logging.info(f"Processing blob: {myblob.name}, Size: {myblob.length} bytes")
MainEntry(i) ==
  /\ pc[i] = "main"
  /\ log' = Append(log, [level |-> "INFO", name |-> blob[i].name,
                         size |-> Len(blob[i].content)])
  /\ Goto(i, "dispatch")
  /\ UNCHANGED <<env, blob, arg, response, opState, analysis, result,
                 outputBlob, exc, reads, calls, remote>>

\* if myblob.name.endswith(".txt"):
DispatchText(i) ==
  /\ pc[i] = "dispatch"
  /\ IsText(blob[i].name)
  /\ Goto(i, "read_text")
  /\ UNCHANGED <<env, log, blob, arg, response, opState, analysis, result,
                 outputBlob, exc, reads, calls, remote>>

\* elif myblob.name.endswith(".jpg") or myblob.name.endswith(".png"):
DispatchImage(i) ==
  /\ pc[i] = "dispatch"
  /\ ~IsText(blob[i].name)
  /\ IsImage(blob[i].name)
  /\ Goto(i, "read_image")
  /\ UNCHANGED <<env, log, blob, arg, response, opState, analysis, result,
                 outputBlob, exc, reads, calls, remote>>

\* else: logging.warning(...); return
DispatchUnsupported(i) ==
  /\ pc[i] = "dispatch"
  /\ ~IsText(blob[i].name)
  /\ ~IsImage(blob[i].name)
  /\ log' = Append(log, [level |-> "WARNING", name |-> blob[i].name,
                         size |-> Len(blob[i].content)])
  /\ Goto(i, "done")
  /\ UNCHANGED <<env, blob, arg, response, opState, analysis, result,
                 outputBlob, exc, reads, calls, remote>>

\* process_text(myblob.read().decode("utf-8")): the argument is evaluated,
\* then process_text is entered.
ReadText(i) ==
  /\ pc[i] = "read_text"
  /\ reads' = [reads EXCEPT ![i] = @ + 1]
  /\ LET d == BytesDecode(blob[i].content)
     IN IF d.ok
        THEN /\ arg' = [arg EXCEPT ![i] = d.text]
             /\ calls' = [calls EXCEPT
                            ![i] = Append(@, [fn |-> "process_text",
                                              arg |-> d.text])]
             /\ Goto(i, "text_client")
             /\ UNCHANGED exc
        ELSE /\ Raise(i, "UnicodeDecodeError")
             /\ UNCHANGED <<arg, calls>>
  /\ UNCHANGED <<env, log, blob, response, opState, analysis, result,
                 outputBlob, remote>>

\* process_image(myblob.read())
ReadImage(i) ==
  /\ pc[i] = "read_image"
  /\ reads' = [reads EXCEPT ![i] = @ + 1]
  /\ arg' = [arg EXCEPT ![i] = blob[i].content]
  /\ calls' = [calls EXCEPT
                 ![i] = Append(@, [fn |-> "process_image",
                                   arg |-> blob[i].content])]
  /\ Goto(i, "image_client")
  /\ UNCHANGED <<env, log, blob, response, opState, analysis, result,
                 outputBlob, exc, remote>>

\* The first three statements of a strategy: the client is built from the
\* environment, or the constructor's exception leaves the strategy.
BuildClient(i, here, next) ==
  /\ pc[i] = here
  /\ IF CreateClient(env) = "none"
     THEN Goto(i, next) /\ UNCHANGED exc
     ELSE Raise(i, CreateClient(env))
  /\ UNCHANGED <<env, log, blob, arg, response, opState, analysis, result,
                 outputBlob, reads, calls, remote>>

TextClient(i) == BuildClient(i, "text_client", "text_call")

ImageClient(i) == BuildClient(i, "image_client", "image_submit")

\* response = client.analyze_sentiment(documents=[blob_content]): the call
\* raises ...
TextCallFails(i) ==
  /\ pc[i] = "text_call"
  /\ remote' = [remote EXCEPT
                  ![i] = Append(@, [op |-> "analyze_sentiment",
                                    documents |-> <<arg[i]>>])]
  /\ response' = [response EXCEPT ![i] = [kind |-> "error"]]
  /\ Raise(i, "HttpResponseError")
  /\ UNCHANGED <<env, log, blob, arg, opState, analysis, result, outputBlob,
                 reads, calls>>

\* ... or returns a list of per-document items.
TextCallReturns(i, answers) ==
  /\ pc[i] = "text_call"
  /\ remote' = [remote EXCEPT
                  ![i] = Append(@, [op |-> "analyze_sentiment",
                                    documents |-> <<arg[i]>>])]
  /\ \E r \in answers :
       response' = [response EXCEPT ![i] = [kind |-> "items", items |-> r]]
  /\ Goto(i, "text_extract")
  /\ UNCHANGED <<env, log, blob, arg, opState, analysis, result, outputBlob,
                 exc, reads, calls>>

\* The loop of process_text and its return into main's `result`.
TextExtract(i) ==
  /\ pc[i] = "text_extract"
  /\ LET out == ProcessTextBody(response[i].items)
     IN IF out.raised = "none"
        THEN /\ result' = [result EXCEPT ![Frame(i)] = out.result]
             /\ Goto(i, "write")
             /\ UNCHANGED exc
        ELSE /\ Raise(i, out.raised)
             /\ UNCHANGED result
  /\ UNCHANGED <<env, log, blob, arg, response, opState, analysis,
                 outputBlob, reads, calls, remote>>

\* poller = client.begin_analyze_document("prebuilt-read", blob_content):
\* the submission raises ...
ImageSubmitFails(i) ==
  /\ pc[i] = "image_submit"
  /\ remote' = [remote EXCEPT
                  ![i] = Append(@, [op |-> "begin_analyze_document",
                                    model |-> "prebuilt-read",
                                    content |-> arg[i]])]
  /\ response' = [response EXCEPT ![i] = [kind |-> "error"]]
  /\ Raise(i, "HttpResponseError")
  /\ UNCHANGED <<env, log, blob, arg, opState, analysis, result, outputBlob,
                 reads, calls>>

\* ... or returns a poller on the submitted operation.
ImageSubmit(i) ==
  /\ pc[i] = "image_submit"
  /\ remote' = [remote EXCEPT
                  ![i] = Append(@, [op |-> "begin_analyze_document",
                                    model |-> "prebuilt-read",
                                    content |-> arg[i]])]
  /\ response' = [response EXCEPT ![i] = [kind |-> "poller"]]
  /\ opState' = [opState EXCEPT ![i] = "Submitted"]
  /\ Goto(i, "image_wait")
  /\ UNCHANGED <<env, log, blob, arg, analysis, result, outputBlob, exc,
                 reads, calls>>

\* The backend drives the operation: Submitted -> Running -> Succeeded/Failed.
BackendRun(i) ==
  /\ opState[i] = "Submitted"
  /\ opState' = [opState EXCEPT ![i] = "Running"]
  /\ UNCHANGED <<env, log, blob, pc, arg, response, analysis, result,
                 outputBlob, exc, reads, calls, remote>>

BackendSucceed(i, answers) ==
  /\ opState[i] = "Running"
  /\ opState' = [opState EXCEPT ![i] = "Succeeded"]
  /\ \E a \in answers : analysis' = [analysis EXCEPT ![i] = a]
  /\ UNCHANGED <<env, log, blob, pc, arg, response, result, outputBlob, exc,
                 reads, calls, remote>>

BackendFail(i) ==
  /\ opState[i] = "Running"
  /\ opState' = [opState EXCEPT ![i] = "Failed"]
  /\ UNCHANGED <<env, log, blob, pc, arg, response, analysis, result,
                 outputBlob, exc, reads, calls, remote>>

\* Fault variant of PollerDone: the result taken without waiting.
PollerDoneAtOnce(state) == TRUE

\* poller.result() returns or raises once the operation is terminal.
PollerDone(state) == state \in {"Succeeded", "Failed"}

\* result = poller.result()
ImageWait(i) ==
  /\ pc[i] = "image_wait"
  /\ PollerDone(opState[i])
  /\ IF opState[i] = "Failed"
     THEN Raise(i, "HttpResponseError")
     ELSE Goto(i, "image_extract") /\ UNCHANGED exc
  /\ UNCHANGED <<env, log, blob, arg, response, opState, analysis, result,
                 outputBlob, reads, calls, remote>>

\* The loops of process_image and its return into main's `result`.
ImageExtract(i) ==
  /\ pc[i] = "image_extract"
  /\ result' = [result EXCEPT ![Frame(i)] = ProcessImageBody(analysis[i])]
  /\ Goto(i, "write")
  /\ UNCHANGED <<env, log, blob, arg, response, opState, analysis,
                 outputBlob, exc, reads, calls, remote>>

\* outputBlob.set(json.dumps(result))
Write(i) ==
  /\ pc[i] = "write"
  /\ outputBlob' = [outputBlob EXCEPT
                      ![i] = Append(@, JsonDumps(result[Frame(i)]))]
  /\ Goto(i, "done")
  /\ UNCHANGED <<env, log, blob, arg, response, opState, analysis, result,
                 exc, reads, calls, remote>>

\* One step of one invocation or of its backend operation.
NextOf(sentiments, analyses) ==
  \/ \E i \in Invocations : MainEntry(i)
  \/ \E i \in Invocations : DispatchText(i)
  \/ \E i \in Invocations : DispatchImage(i)
  \/ \E i \in Invocations : DispatchUnsupported(i)
  \/ \E i \in Invocations : ReadText(i)
  \/ \E i \in Invocations : ReadImage(i)
  \/ \E i \in Invocations : TextClient(i)
  \/ \E i \in Invocations : ImageClient(i)
  \/ \E i \in Invocations : TextCallFails(i)
  \/ \E i \in Invocations : TextCallReturns(i, sentiments)
  \/ \E i \in Invocations : TextExtract(i)
  \/ \E i \in Invocations : ImageSubmitFails(i)
  \/ \E i \in Invocations : ImageSubmit(i)
  \/ \E i \in Invocations : BackendRun(i)
  \/ \E i \in Invocations : BackendSucceed(i, analyses)
  \/ \E i \in Invocations : BackendFail(i)
  \/ \E i \in Invocations : ImageWait(i)
  \/ \E i \in Invocations : ImageExtract(i)
  \/ \E i \in Invocations : Write(i)

Next == NextOf(SentimentResponses, AnalyzeResults)

Spec == Init /\ [][Next]_vars

\* Two invocations at once, on a smaller set of blobs and answers.
ConcNames ==
  { <<"n", ".", "t", "x", "t">>, <<"s", ".", "p", "n", "g">>,
    <<"a", ".", "z", "i", "p">> }
ConcContents == { <<65>>, <<255>> }
ConcSentimentResponses == SeqsUpTo(OkDocs \cup ErrDocs, 1)
ConcAnalyzeResults ==
  { a \in AnalyzeResults :
      Len(a.pages) <= 1 /\ \A k \in 1..Len(a.pages) : Len(a.pages[k].lines) <= 1 }

InitConc == InitOf({1, 2}, [name : ConcNames, content : ConcContents])

NextConc == NextOf(ConcSentimentResponses, ConcAnalyzeResults)

SpecConc == InitConc /\ [][NextConc]_vars

\* --------------------------------------------------------------- vocabulary
Terminated(i) == pc[i] \in {"done", "failed"}

EndsTxt(i) == EndsWith(blob[i].name, <<".", "t", "x", "t">>)
EndsJpgPng(i) ==
  \/ EndsWith(blob[i].name, <<".", "j", "p", "g">>)
  \/ EndsWith(blob[i].name, <<".", "p", "n", "g">>)

Warnings == { k \in 1..Len(log) : log[k].level = "WARNING" }

ConfigMissing == ~(EnvNames \subseteq DOMAIN env)

\* Parsing a JSON text back: the nesting depth in front of token k, the
\* positions of the keys of the top-level object, and how often a key occurs
\* among them.
Opens(tokens, k) == { j \in 1..(k - 1) : tokens[j] \in {"{", "["} }
Closes(tokens, k) == { j \in 1..(k - 1) : tokens[j] \in {"}", "]"} }
DepthAt(tokens, k) ==
  Cardinality(Opens(tokens, k)) - Cardinality(Closes(tokens, k))

TopKeyPositions(tokens) ==
  { k \in 1..(Len(tokens) - 1) :
      tokens[k + 1] = ":" /\ DepthAt(tokens, k) = 1 }

Count(tokens, key) ==
  Cardinality({ k \in TopKeyPositions(tokens) : tokens[k] = key })

\* ------------------------------------------------------------------- claims
\* C1: an invocation whose blob name ends in none of ".txt", ".jpg", ".png"
\* never raises, never reads the blob, calls no strategy and no backend,
\* never sets the output, and has logged exactly one warning when it returns
\* (none before).
C1_UnsupportedIsNoOp ==
  \A i \in Invocations :
    (~EndsTxt(i) /\ ~EndsJpgPng(i)) =>
      /\ pc[i] \in {"main", "dispatch", "done"}
      /\ exc[i] = "none"
      /\ reads[i] = 0
      /\ calls[i] = << >>
      /\ remote[i] = << >>
      /\ outputBlob[i] = << >>
      /\ Cardinality(Warnings) = (IF pc[i] = "done" THEN 1 ELSE 0)

C1_Witness ==
  \E i \in Invocations :
    /\ blob[i].name = <<"n", ".", "T", "X", "T">>
    /\ pc[i] = "done"
    /\ Cardinality(Warnings) = 1

\* C2: the output is set at most once, and only at the end of an invocation
\* whose strategy returned; an invocation with a cause of failure (invalid
\* UTF-8 in a ".txt" blob, missing configuration with a strategy selected, a
\* remote call that raised, a failed operation) never sets it and ends failed.
FailureCause(i) ==
  \/ EndsTxt(i) /\ ~ValidUtf8(blob[i].content)
  \/ (EndsTxt(i) \/ EndsJpgPng(i)) /\ ConfigMissing
  \/ response[i].kind = "error"
  \/ opState[i] = "Failed"

C2_OutputOnlyOnSuccess ==
  \A i \in Invocations :
    /\ Len(outputBlob[i]) <= 1
    /\ outputBlob[i] # << >> =>
         /\ pc[i] = "done"
         /\ exc[i] = "none"
         /\ Len(calls[i]) = 1
         /\ result[i] # Unset
         /\ outputBlob[i] = <<JsonDumps(result[i])>>
    /\ pc[i] = "failed" => outputBlob[i] = << >> /\ exc[i] # "none"
    /\ FailureCause(i) => outputBlob[i] = << >> /\ pc[i] # "done"

C2_Witness ==
  \E i \in Invocations :
    /\ EndsTxt(i)
    /\ blob[i].content = <<65, 255>>
    /\ pc[i] = "failed"
    /\ exc[i] = "UnicodeDecodeError"
    /\ outputBlob[i] = << >>

\* C3: when the sentiment backend returns an item flagged as failed, the
\* invocation ends with an exception and without output; no result holding
\* the item, or the other items without it, reaches main.
HasErrorItem(i) ==
  /\ response[i].kind = "items"
  /\ \E k \in 1..Len(response[i].items) : response[i].items[k].is_error

C3_ErrorItemFailsInvocation ==
  \A i \in Invocations :
    HasErrorItem(i) =>
      /\ pc[i] \in {"text_extract", "failed"}
      /\ pc[i] = "failed" => exc[i] = "AttributeError"
      /\ result[i] = Unset
      /\ outputBlob[i] = << >>

C3_Witness ==
  \E i \in Invocations :
    /\ HasErrorItem(i)
    /\ Len(response[i].items) = 2
    /\ ~response[i].items[1].is_error
    /\ pc[i] = "failed"

\* C4: the strategy called is decided by the blob name's suffix alone.  At
\* most one strategy is called; process_text only for a name ending in
\* ".txt", on the decoded content; process_image only for a name ending in
\* ".jpg" or ".png", on the raw bytes; and an invocation that has ended has
\* called the strategy of its suffix (none for any other suffix, and none
\* when the ".txt" content did not decode).
ExpectedTextCall(i) ==
  [fn |-> "process_text", arg |-> Utf8From(blob[i].content, 1, "strict").text]
ExpectedImageCall(i) == [fn |-> "process_image", arg |-> blob[i].content]

C4_DispatchBySuffix ==
  \A i \in Invocations :
    /\ Len(calls[i]) <= 1
    /\ \A k \in 1..Len(calls[i]) :
         /\ calls[i][k].fn = "process_text" =>
              EndsTxt(i) /\ calls[i][k] = ExpectedTextCall(i)
         /\ calls[i][k].fn = "process_image" =>
              EndsJpgPng(i) /\ ~EndsTxt(i) /\ calls[i][k] = ExpectedImageCall(i)
    /\ Terminated(i) =>
         calls[i] = IF EndsTxt(i)
                    THEN IF ValidUtf8(blob[i].content) THEN <<ExpectedTextCall(i)>>
                         ELSE << >>
                    ELSE IF EndsJpgPng(i) THEN <<ExpectedImageCall(i)>>
                    ELSE << >>

C4_Witness ==
  \E i \in Invocations :
    /\ blob[i].name = <<"n", ".", "t", "x", "t", ".", "p", "n", "g">>
    /\ blob[i].content = <<65, 255>>
    /\ Terminated(i)
    /\ calls[i] = <<ExpectedImageCall(i)>>

\* C5: with AZURE_AI_ENDPOINT or AZURE_AI_KEY not set, no remote call is
\* issued and no output is set; an invocation that entered a strategy fails
\* at the construction of the client.
C5_MissingConfigFailsFast ==
  \A i \in Invocations :
    ConfigMissing =>
      /\ remote[i] = << >>
      /\ response[i] = NoResponse
      /\ opState[i] = "None"
      /\ outputBlob[i] = << >>
      /\ calls[i] # << >> =>
           \/ pc[i] \in {"text_client", "image_client"}
           \/ pc[i] = "failed" /\ exc[i] \in {"TypeError", "ValueError"}

C5_Witness ==
  \E i \in Invocations :
    /\ DOMAIN env = {"AZURE_AI_ENDPOINT"}
    /\ calls[i] # << >>
    /\ pc[i] = "failed"
    /\ exc[i] = "TypeError"

\* C6: the pages of a process_image result are the backend's pages, one for
\* one and in order; each carries the page's page_number and, as its lines,
\* the contents of the page's lines, one for one and in order.
C6_PagesPreserved ==
  \A i \in Invocations :
    "pages" \in DOMAIN result[i] =>
      LET ps == analysis[i].pages
          out == result[i].pages
      IN /\ opState[i] = "Succeeded"
         /\ Len(out) = Len(ps)
         /\ \A k \in 1..Len(ps) :
              /\ DOMAIN out[k] = {"page_number", "lines"}
              /\ out[k].page_number = ps[k].page_number
              /\ Len(out[k].lines) = Len(ps[k].lines)
              /\ \A j \in 1..Len(ps[k].lines) :
                   out[k].lines[j] = ps[k].lines[j].content

C6_Witness ==
  \E i \in Invocations :
    /\ pc[i] = "done"
    /\ outputBlob[i] # << >>
    /\ Len(analysis[i].pages) = 2
    /\ analysis[i].pages[1].page_number = 2
    /\ analysis[i].pages[1].lines = << >>
    /\ Len(analysis[i].pages[2].lines) = 2
    /\ analysis[i].pages[2].lines[1] = analysis[i].pages[2].lines[2]
    /\ Len(result[i].pages) = 2

\* C7: a process_text result comes from one analyze_sentiment call with the
\* decoded blob text as its only document; its documents are the backend's
\* items, one for one and in order, each with the item's id, sentiment and
\* three confidence scores; there is one of them when the backend answers
\* one item per submitted document.
C7_DocumentsPreserved ==
  \A i \in Invocations :
    "documents" \in DOMAIN result[i] =>
      LET items == response[i].items
          docs == result[i].documents
      IN /\ remote[i] = <<[op |-> "analyze_sentiment",
                           documents |->
                             <<Utf8From(blob[i].content, 1, "strict").text>>]>>
         /\ Len(docs) = Len(items)
         /\ \A k \in 1..Len(items) :
              /\ DOMAIN docs[k] = {"id", "sentiment", "confidence_scores"}
              /\ docs[k].id = items[k].id
              /\ docs[k].sentiment = items[k].sentiment
              /\ docs[k].confidence_scores.positive
                   = items[k].confidence_scores.positive
              /\ docs[k].confidence_scores.neutral
                   = items[k].confidence_scores.neutral
              /\ docs[k].confidence_scores.negative
                   = items[k].confidence_scores.negative
         /\ Len(items) = Len(remote[i][1].documents) => Len(docs) = 1

C7_Witness ==
  \E i \in Invocations :
    /\ pc[i] = "done"
    /\ outputBlob[i] # << >>
    /\ blob[i].content = <<65, 195, 169>>
    /\ Len(response[i].items) = 1
    /\ response[i].items[1].sentiment = "positive"
    /\ Len(result[i].documents) = 1

\* C8: while the operation behind the poller is Submitted or Running the
\* invocation stands at poller.result() with nothing extracted or written;
\* pages are extracted and output is written only with the operation
\* Succeeded; a Failed operation or a failed submission ends the invocation
\* with HttpResponseError, nothing extracted or written; the document is
\* submitted at most once.
Submissions(i) ==
  { k \in 1..Len(remote[i]) : remote[i][k].op = "begin_analyze_document" }

C8_WaitsForTerminalState ==
  \A i \in Invocations :
    /\ opState[i] \in {"Submitted", "Running"} =>
         /\ pc[i] = "image_wait"
         /\ exc[i] = "none"
         /\ result[i] = Unset
         /\ outputBlob[i] = << >>
    /\ (pc[i] = "image_extract" \/ "pages" \in DOMAIN result[i]) =>
         opState[i] = "Succeeded"
    /\ (EndsJpgPng(i) /\ ~EndsTxt(i) /\ outputBlob[i] # << >>) =>
         opState[i] = "Succeeded" /\ "pages" \in DOMAIN result[i]
    /\ opState[i] = "Failed" =>
         /\ pc[i] \in {"image_wait", "failed"}
         /\ pc[i] = "failed" => exc[i] = "HttpResponseError"
         /\ result[i] = Unset
         /\ outputBlob[i] = << >>
    /\ (Submissions(i) # {} /\ response[i].kind = "error") =>
         /\ pc[i] = "failed"
         /\ exc[i] = "HttpResponseError"
         /\ opState[i] = "None"
         /\ result[i] = Unset
         /\ outputBlob[i] = << >>
    /\ Cardinality(Submissions(i)) <= 1
    /\ opState[i] # "None" => Cardinality(Submissions(i)) = 1

C8_Witness ==
  \E i \in Invocations :
    /\ opState[i] = "Succeeded"
    /\ Len(analysis[i].pages) = 1
    /\ pc[i] = "done"
    /\ outputBlob[i] # << >>

\* C9: every value written to the output has exactly one of the top-level
\* keys "documents" and "pages": "documents" exactly when the blob name ends
\* in ".txt", "pages" exactly when it ends in ".jpg" or ".png".
C9_OneEnvelopeKey ==
  \A i \in Invocations :
    \A k \in 1..Len(outputBlob[i]) :
      LET nDocuments == Count(outputBlob[i][k], "\"documents\"")
          nPages == Count(outputBlob[i][k], "\"pages\"")
      IN /\ nDocuments + nPages = 1
         /\ nDocuments = 1 <=> EndsTxt(i)
         /\ nPages = 1 <=> EndsJpgPng(i)

C9_Witness ==
  \E i \in Invocations :
    /\ blob[i].name = <<"p", ".", "j", "p", "g">>
    /\ Len(outputBlob[i]) = 1
    /\ Count(outputBlob[i][1], "\"pages\"") = 1
    /\ Len(analysis[i].pages) = 2

\* C10: an invocation that has ended, whatever the other invocation did in
\* between, has the outcome of running alone on its blob with the answers
\* its backend gave it; and its output is set by nobody before it ends.
Returned(output) == [kind |-> "returned", exc |-> "none", output |-> output]
Failed(e) == [kind |-> "failed", exc |-> e, output |-> << >>]

Outcome(i) ==
  [kind |-> IF pc[i] = "failed" THEN "failed" ELSE "returned",
   exc |-> exc[i],
   output |-> outputBlob[i]]

\* main run from start to end on blob b in environment e, the sentiment
\* call answering r, the submission and operation answering r, op and a.
RunAlone(b, e, r, op, a) ==
  IF EndsWith(b.name, <<".", "t", "x", "t">>)
  THEN IF ~ValidUtf8(b.content) THEN Failed("UnicodeDecodeError")
       ELSE IF CreateClient(e) # "none" THEN Failed(CreateClient(e))
       ELSE IF r.kind = "error" THEN Failed("HttpResponseError")
       ELSE LET out == ProcessTextBody(r.items)
            IN IF out.raised # "none" THEN Failed(out.raised)
               ELSE Returned(<<JsonDumps(out.result)>>)
  ELSE IF \/ EndsWith(b.name, <<".", "j", "p", "g">>)
          \/ EndsWith(b.name, <<".", "p", "n", "g">>)
  THEN IF CreateClient(e) # "none" THEN Failed(CreateClient(e))
       ELSE IF r.kind = "error" \/ op = "Failed"
       THEN Failed("HttpResponseError")
       ELSE Returned(<<JsonDumps(ProcessImageBody(a))>>)
  ELSE Returned(<< >>)

C10_InvocationsIndependent ==
  \A i \in Invocations :
    /\ Terminated(i) =>
         Outcome(i) = RunAlone(blob[i], env, response[i], opState[i],
                               analysis[i])
    /\ ~Terminated(i) => outputBlob[i] = << >>

C10_Witness ==
  /\ Invocations = {1, 2}
  /\ pc[1] = "done" /\ pc[2] = "done"
  /\ EndsTxt(1) /\ EndsJpgPng(2)
  /\ outputBlob[1] # << >> /\ outputBlob[2] # << >>
  /\ Len(analysis[2].pages) = 1

====
